---- MODULE Spec2Model ----
(***************************************************************************)
(* A model of scripts/evaluate.py: the target invoker                      *)
(* (send_question_to_target), the dataset loader (load_jsonl), the run     *)
(* orchestrator and metric aggregation (run_evaluation), the config        *)
(* materializer (process_config) and the entry point                       *)
(* (run_evaluate_from_config).                                             *)
(*                                                                         *)
(* Python values are tagged records: [t |-> "str", v |-> <<chars>>],       *)
(* [t |-> "null"], [t |-> "num", v |-> n], [t |-> "arr", v |-> <<...>>]    *)
(* and [t |-> "obj", v |-> << <<key, value>>, ... >>] (a dict keeps its    *)
(* insertion order).  A str is the sequence of its characters; a fixed     *)
(* literal message of the program or of a library is kept as one unit.     *)
(***************************************************************************)
EXTENDS Integers, Sequences, FiniteSets, TLC

VARIABLES
    \* ---- send_question_to_target, called on its own
    sq_question,    \* the question argument
    sq_http,        \* what the target does with the POST
    sq_raise_error, \* the raise_error argument
    sq_out,         \* the outcome of the call, NoOutcome before it
    \* ---- process_config
    cfg_in,         \* the mapping handed to process_config
    cfg_fs,         \* the files process_config can open
    cfg_now,        \* int(time.time())
    cfg_out,        \* the outcome of the call, NoOutcome before it
    \* ---- run_evaluate_from_config and run_evaluation
    pc,             \* the statement the run is at
    dataset_file,   \* the lines of the test data file, or Missing
    num_questions,  \* the num_questions argument
    testdata,       \* run_evaluation's testdata
    target_data,    \* what the probe's send_question_to_target did
    eval_data,      \* the data= argument evaluate() was called with
    results,        \* what evaluate() returned
    questions_with_ratings,
    ind,            \* records the aggregation loop has processed
    metrics,        \* metric name -> mean_rating, pass_count, pass_rate
    total_length,
    max_length,
    min_length,
    total_with_citation,
    summary,        \* the answer_length and answer_has_citation entries
    files,          \* the output files of the results directory
    ret,            \* what run_evaluation returned
    exc,            \* the exception that ended the run
    events          \* the steps the run has taken, in order

sq_vars  == <<sq_question, sq_http, sq_raise_error, sq_out>>
cfg_vars == <<cfg_in, cfg_fs, cfg_now, cfg_out>>
agg_vars == <<questions_with_ratings, ind, metrics, total_length, max_length,
              min_length, total_with_citation, summary>>
run_vars == <<pc, dataset_file, num_questions, testdata, target_data,
              eval_data, results, files, ret, exc, events>>
vars     == <<sq_vars, cfg_vars, agg_vars, run_vars>>

NoOutcome == [kind |-> "none"]

-----------------------------------------------------------------------------
(* Python values *)

Str(chars) == [t |-> "str", v |-> chars]
Null       == [t |-> "null"]
Num(n)     == [t |-> "num", v |-> n]
Arr(items) == [t |-> "arr", v |-> items]
Obj(pairs) == [t |-> "obj", v |-> pairs]

IsStr(x) == x.t = "str"

RECURSIVE Concat(_)
\* the concatenation of a sequence of character sequences
Concat(ss) == IF ss = <<>> THEN <<>> ELSE Head(ss) \o Concat(Tail(ss))

Ok(val)    == [ok |-> TRUE, val |-> val]
Err(type)  == [ok |-> FALSE, exc |-> type]

\* x[key] for a str key
GetKey(x, key) ==
    IF x.t = "obj"
    THEN IF \E i \in 1..Len(x.v) : x.v[i][1] = key
         THEN Ok(x.v[CHOOSE i \in 1..Len(x.v) : x.v[i][1] = key][2])
         ELSE Err("KeyError")
    ELSE Err("TypeError")

\* x[0]
GetFirst(x) ==
    CASE x.t = "arr" -> IF Len(x.v) > 0 THEN Ok(x.v[1]) ELSE Err("IndexError")
      [] x.t = "str" -> IF Len(x.v) > 0 THEN Ok(Str(<<x.v[1]>>)) ELSE Err("IndexError")
      [] x.t = "obj" -> Err("KeyError")
      [] OTHER       -> Err("TypeError")

RECURSIVE JoinSeq(_, _)
\* sep.join(items) for a sequence of character sequences
JoinSeq(sep, items) ==
    IF items = <<>> THEN <<>>
    ELSE IF Len(items) = 1 THEN items[1]
    ELSE items[1] \o sep \o JoinSeq(sep, Tail(items))

\* sep.join(x): x is iterated; every item must be a str
Join(sep, x) ==
    CASE x.t = "arr" ->
            IF \A i \in 1..Len(x.v) : IsStr(x.v[i])
            THEN Ok(Str(JoinSeq(sep, [i \in 1..Len(x.v) |-> x.v[i].v])))
            ELSE Err("TypeError")
      [] x.t = "str" -> Ok(Str(JoinSeq(sep, [i \in 1..Len(x.v) |-> <<x.v[i]>>])))
      [] x.t = "obj" -> Ok(Str(JoinSeq(sep, [i \in 1..Len(x.v) |-> <<x.v[i][1]>>])))
      [] OTHER       -> Err("TypeError")

-----------------------------------------------------------------------------
(* send_question_to_target *)

SchemaMessage == "Response does not adhere to the expected schema. Either adjust the app response or adjust send_question_to_target() in evaluate.py to match the actual schema.\nResponse: "

\* a variant whose message leaves the response out
SchemaErrorText_NoResponse(response_dict) == Str(<<SchemaMessage>>)

\* the f-string of the ValueError: the literal followed by the repr of the
\* parsed response
SchemaErrorText(response_dict) ==
    [t |-> "str", v |-> <<SchemaMessage>>, repr_of |-> response_dict]

Exc(type, msg) == [type |-> type, msg |-> msg]

\* str(e)
StrOfExc(e) == e.msg

Return(val) == [kind |-> "return", value |-> val]
Raise(e)    == [kind |-> "raise", exc |-> e]

\* a variant that joins the snippets with a single newline
ContextSeparator_Newline == <<"\n">>

ContextSeparator == <<"\n", "\n">>

\* a subscript: [key] or [0]
Key(k)   == [index |-> FALSE, key |-> k]
FirstItem == [index |-> TRUE, key |-> ""]

RECURSIVE GetPath(_, _)
\* x[...][...]: the subscripts of path applied in turn, up to the first
\* that raises
GetPath(x, path) ==
    IF path = <<>> THEN Ok(x)
    ELSE LET step == IF Head(path).index THEN GetFirst(x)
                     ELSE GetKey(x, Head(path).key)
         IN  IF step.ok THEN GetPath(step.val, Tail(path)) ELSE step

AnswerPath == << Key("choices"), FirstItem, Key("message"), Key("content") >>

DataPointsPath ==
    << Key("choices"), FirstItem, Key("context"), Key("data_points"), Key("text") >>

\* the inner try block: the answer and the joined context of a parsed
\* response, or the exception the subscripts or the join raise
ExtractAnswer(response_dict) ==
    LET answer == GetPath(response_dict, AnswerPath)
    IN  IF ~answer.ok THEN answer
        ELSE LET data_points == GetPath(response_dict, DataPointsPath)
             IN  IF ~data_points.ok THEN data_points
                 ELSE LET context == Join(ContextSeparator, data_points.val)
                      IN  IF ~context.ok THEN context
                          ELSE Ok([answer |-> answer.val, context |-> context.val])

\* the body of the outer try block: the POST, r.json(), the inner try
TryBody(question, http) ==
    IF http.kind = "no_connection"
    THEN Raise(Exc("ConnectionError", Str(<<"Connection refused">>)))
    ELSE IF ~http.json
    THEN Raise(Exc("JSONDecodeError", Str(<<"Expecting value: line 1 column 1 (char 0)">>)))
    ELSE LET parsed == ExtractAnswer(http.body)
         IN  IF parsed.ok
             THEN Return([question |-> question,
                          answer   |-> parsed.val.answer,
                          context  |-> parsed.val.context])
             ELSE Raise(Exc("ValueError", SchemaErrorText(http.body)))

\* a variant whose handler is "except ValueError"
OuterHandler_ValueErrorOnly(question, e, raise_error) ==
    IF raise_error \/ e.type /= "ValueError"
    THEN Raise(e)
    ELSE Return([question |-> question,
                 answer   |-> StrOfExc(e),
                 context  |-> StrOfExc(e)])

\* the handler of the outer try block
OuterHandler(question, e, raise_error) ==
    IF raise_error
    THEN Raise(e)
    ELSE Return([question |-> question,
                 answer   |-> StrOfExc(e),
                 context  |-> StrOfExc(e)])

send_question_to_target(question, http, raise_error) ==
    LET body == TryBody(question, http)
    IN  IF body.kind = "raise"
        THEN OuterHandler(question, body.exc, raise_error)
        ELSE body

-----------------------------------------------------------------------------
(* process_config *)

TIMESTAMP == <<"<","T","I","M","E","S","T","A","M","P",">">>
READFILE  == <<"<","R","E","A","D","F","I","L","E",">">>

\* sub in s
Contains(s, sub) ==
    \E i \in 1..(Len(s) - Len(sub) + 1) : SubSeq(s, i, i + Len(sub) - 1) = sub

RECURSIVE Replace_FirstOnly(_, _, _)
\* a variant that replaces the first occurrence alone: s.replace(old, new, 1)
Replace_FirstOnly(s, old, new) ==
    IF Len(s) < Len(old) THEN s
    ELSE IF SubSeq(s, 1, Len(old)) = old
    THEN new \o SubSeq(s, Len(old) + 1, Len(s))
    ELSE <<Head(s)>> \o Replace_FirstOnly(Tail(s), old, new)

RECURSIVE Replace(_, _, _)
\* s.replace(old, new): every occurrence, leftmost first, not overlapping
Replace(s, old, new) ==
    IF Len(s) < Len(old) THEN s
    ELSE IF SubSeq(s, 1, Len(old)) = old
    THEN new \o Replace(SubSeq(s, Len(old) + 1, Len(s)), old, new)
    ELSE <<Head(s)>> \o Replace(Tail(s), old, new)

Digits == <<"0","1","2","3","4","5","6","7","8","9">>

RECURSIVE DecStr(_)
\* str(n) for an int n >= 0
DecStr(n) ==
    IF n < 10 THEN <<Digits[n + 1]>>
    ELSE DecStr(n \div 10) \o <<Digits[(n % 10) + 1]>>

Missing == [t |-> "missing"]

\* open(path).read(): the contents, or FileNotFoundError
ReadFile(fs, path) ==
    IF path \in DOMAIN fs /\ fs[path] /= Missing
    THEN Ok(fs[path])
    ELSE Err("FileNotFoundError")

RECURSIVE ProcessValue(_, _, _)
RECURSIVE ProcessEntries(_, _, _)

\* the body of the loop for one key: the value the key holds afterwards,
\* and whether the body ended without an exception
ProcessValue(val, fs, now) ==
    IF val.t = "obj"
    THEN LET inner == ProcessEntries(val.v, fs, now)
         IN  [ok |-> inner.ok, v |-> Obj(inner.v)]
    ELSE IF val.t = "str" /\ Contains(val.v, TIMESTAMP)
    THEN [ok |-> TRUE, v |-> Str(Replace(val.v, TIMESTAMP, DecStr(now)))]
    ELSE IF val.t = "str" /\ Contains(val.v, READFILE)
    THEN LET f == ReadFile(fs, Replace(val.v, READFILE, <<>>))
         IN  IF f.ok THEN [ok |-> TRUE, v |-> f.val]
             ELSE [ok |-> FALSE, v |-> val]
    ELSE [ok |-> TRUE, v |-> val]

\* the loop over the keys of a dict, in order; an exception ends it and
\* leaves the later keys as they were
ProcessEntries(pairs, fs, now) ==
    IF pairs = <<>> THEN [ok |-> TRUE, v |-> <<>>]
    ELSE LET first == ProcessValue(pairs[1][2], fs, now)
             entry == << <<pairs[1][1], first.v>> >>
         IN  IF ~first.ok
             THEN [ok |-> FALSE, v |-> entry \o Tail(pairs)]
             ELSE LET rest == ProcessEntries(Tail(pairs), fs, now)
                  IN  [ok |-> rest.ok, v |-> entry \o rest.v]

\* process_config(obj): obj as the call leaves it, returning or raising
process_config(obj, fs, now) ==
    IF obj.t = "obj"
    THEN LET r == ProcessEntries(obj.v, fs, now)
         IN  [kind |-> IF r.ok THEN "return" ELSE "raise", cfg |-> Obj(r.v)]
    ELSE [kind |-> "return", cfg |-> obj]

-----------------------------------------------------------------------------
(* load_jsonl and the pure parts of run_evaluation *)

Min(a, b) == IF a <= b THEN a ELSE b
Max(a, b) == IF a >= b THEN a ELSE b

\* a line of a .jsonl file: text json.loads turns into val, or text it rejects
JsonLine(val) == [json |-> TRUE, val |-> val]
BadLine       == [json |-> FALSE, val |-> Null]

File(lines) == [t |-> "file", lines |-> lines]

\* [json.loads(line) for line in f.readlines()]
ParseLines(lines) ==
    IF \E i \in 1..Len(lines) : ~lines[i].json
    THEN Err("JSONDecodeError")
    ELSE Ok([i \in 1..Len(lines) |-> lines[i].val])

load_jsonl(file) ==
    IF file = Missing THEN Err("FileNotFoundError") ELSE ParseLines(file.lines)

None   == [none |-> TRUE, n |-> 0]
IntValue(n) == [none |-> FALSE, n |-> n]

\* the truth value of an Optional[int]
Truthy(x) == ~x.none /\ x.n /= 0

\* a variant that keeps one record more: s[:n + 1]
Slice_OffByOne(s, n) ==
    IF n >= 0 THEN SubSeq(s, 1, Min(n + 1, Len(s)))
    ELSE SubSeq(s, 1, Max(Len(s) + n + 1, 0))

\* s[:n]
Slice(s, n) ==
    IF n >= 0 THEN SubSeq(s, 1, Min(n, Len(s)))
    ELSE SubSeq(s, 1, Max(Len(s) + n, 0))

\* testdata after the cap of num_questions
Truncate(loaded, cap) ==
    IF Truthy(cap) THEN Slice(loaded, cap.n) ELSE loaded

MaxLogLength == 30

truncate_for_log(s) ==
    IF s.t \in {"null", "num"} THEN Err("TypeError")
    ELSE IF Len(s.v) < MaxLogLength THEN Ok(s)
    ELSE IF s.t = "str"
    THEN Ok(Str(SubSeq(s.v, 1, MaxLogLength) \o <<".", ".", ".">>))
    ELSE Err("TypeError")

ProbeQuestion == Str(<<"What information is in your knowledge base?">>)

\* the try block of the health check raises: the probe, or the logging of
\* what it returned
HealthCheckFails(out) ==
    \/ out.kind = "raise"
    \/ ~truncate_for_log(out.value.question).ok
    \/ ~truncate_for_log(out.value.answer).ok
    \/ ~truncate_for_log(out.value.context).ok

\* a variant whose handler logs the error and goes on
AfterHealthCheck_Continues(out) == [pc |-> "evaluate", ret |-> "none"]

\* a variant that returns False whatever the probe did
AfterHealthCheck_AlwaysFalse(out) == [pc |-> "returned", ret |-> "False"]

\* what run_evaluation does after the try block of the health check
AfterHealthCheck(out) ==
    IF HealthCheckFails(out)
    THEN [pc |-> "returned", ret |-> "False"]
    ELSE [pc |-> "evaluate", ret |-> "none"]

\* a variant that probes the target before it loads the test data
PcAfterConfig_Probe == "probe"

\* the statement that follows the reading of the configuration
PcAfterConfig == "load_dataset"

\* the statement that follows the loading of the test data
PcAfterLoad == "probe"

\* a variant that saves the configuration whatever run_evaluation returned
ShouldSaveConfig_Always(r) == TRUE

\* the test of run_evaluate_from_config on what run_evaluation returned
ShouldSaveConfig(r) == r = "True"

gpt_metrics == <<"gpt_coherence", "gpt_relevance", "gpt_groundedness">>

MetricNames == { gpt_metrics[k] : k \in 1..Len(gpt_metrics) }

\* a rating is a number kept in tenths, or NaN
Rating(tenths) == [nan |-> FALSE, tenths |-> tenths]
NaN            == [nan |-> TRUE, tenths |-> 0]

\* int(rating): truncation toward zero
IntOf(rating) ==
    IF rating.nan THEN Err("ValueError")
    ELSE Ok(IF rating.tenths >= 0 THEN rating.tenths \div 10
            ELSE -((-rating.tenths) \div 10))

PassThreshold == 4

\* a variant that rounds the rating instead of truncating it
passes_threshold_Rounds(rating) ==
    IF rating.nan THEN Err("ValueError")
    ELSE Ok((rating.tenths + 5) \div 10 >= PassThreshold)

passes_threshold(rating) ==
    LET i == IntOf(rating)
    IN  IF i.ok THEN Ok(i.val >= PassThreshold) ELSE i

\* round(p / q, 2) in hundredths, for p >= 0 and q > 0: to the nearest
\* hundredth, an exact tie to the even one (a tie needs 8 to divide q, and
\* p / q is then a float without error up to q = 8)
Round2(p, q) ==
    LET scaled == 100 * p
        low    == scaled \div q
        rest   == scaled % q
    IN  IF 2 * rest < q THEN low
        ELSE IF 2 * rest > q THEN low + 1
        ELSE IF low % 2 = 0 THEN low ELSE low + 1

\* the longest run of characters other than "]" that starts at s[i]
RECURSIVE RunLength(_, _)
RunLength(s, i) ==
    IF i > Len(s) \/ s[i] = "]" THEN 0 ELSE 1 + RunLength(s, i + 1)

\* a variant for the pattern \[[^\]]*\], which an empty pair matches
MatchesAt_EmptyAllowed(s, i) ==
    /\ s[i] = "["
    /\ LET run == RunLength(s, i + 1)
       IN  /\ i + 1 + run <= Len(s)
           /\ s[i + 1 + run] = "]"

\* the pattern \[[^\]]+\] matches at s[i]
MatchesAt(s, i) ==
    /\ s[i] = "["
    /\ LET run == RunLength(s, i + 1)
       IN  /\ run >= 1
           /\ i + 1 + run <= Len(s)
           /\ s[i + 1 + run] = "]"

\* re.search(r"\[[^\]]+\]", s) finds a match
HasCitation(s) == \E i \in 1..Len(s) : MatchesAt(s, i)

\* a variant that starts min_length at 0, as max_length
InitialMinLength_Zero == [hi |-> 0, lo |-> 0]

\* min_length starts at 9999999999: a number hi * 10^9 + lo
InitialMinLength == [hi |-> 9, lo |-> 999999999]

\* min(a, n) for a length n below 10^9
MinLength(a, n) ==
    IF a.hi > 0 THEN [hi |-> 0, lo |-> n] ELSE [hi |-> 0, lo |-> Min(a.lo, n)]

\* the metrics dict before the loop
InitialMetrics(means) ==
    [m \in MetricNames |->
        [mean_rating |-> Round2(means[m], 1000), pass_count |-> 0, pass_rate |-> 0]]

RECURSIVE UpdateMetrics(_, _, _, _)
\* the inner loop over gpt_metrics from the k-th on, for the record of
\* (0-based) index n - 1; an exception leaves the later metrics as they were
UpdateMetrics(ms, record, n, k) ==
    IF k > Len(gpt_metrics) THEN [ok |-> TRUE, v |-> ms, exc |-> "none"]
    ELSE LET name  == gpt_metrics[k]
             pass  == passes_threshold(record.ratings[name])
         IN  IF ~pass.ok THEN [ok |-> FALSE, v |-> ms, exc |-> pass.exc]
             ELSE LET count == ms[name].pass_count + (IF pass.val THEN 1 ELSE 0)
                  IN  UpdateMetrics(
                        [ms EXCEPT ![name] = [@ EXCEPT !.pass_count = count,
                                                       !.pass_rate = Round2(count, n)]],
                        record, n, k + 1)

\* one iteration of the loop over questions_with_ratings
AggregateRecord(acc, record, n) ==
    IF record.answer.t /= "str" THEN [ok |-> FALSE, v |-> acc, exc |-> "TypeError"]
    ELSE LET len     == Len(record.answer.v)
             updated == UpdateMetrics(acc.metrics, record, n, 1)
         IN  [ok  |-> updated.ok,
              exc |-> updated.exc,
              v   |-> [metrics             |-> updated.v,
                       total_length        |-> acc.total_length + len,
                       max_length          |-> Max(acc.max_length, len),
                       min_length          |-> MinLength(acc.min_length, len),
                       total_with_citation |-> acc.total_with_citation
                            + (IF HasCitation(record.answer.v) THEN 1 ELSE 0)]]

\* a variant that guards the divisions against an empty sequence
FinalEntries_Guarded(acc, n) ==
    Ok([answer_length |->
            [total |-> acc.total_length,
             mean  |-> IF n = 0 THEN 0 ELSE Round2(acc.total_length, n),
             max   |-> acc.max_length,
             min   |-> acc.min_length],
        answer_has_citation |->
            [total |-> acc.total_with_citation,
             rate  |-> IF n = 0 THEN 0 ELSE Round2(acc.total_with_citation, n)]])

\* the answer_length and answer_has_citation entries, or ZeroDivisionError
FinalEntries(acc, n) ==
    IF n = 0 THEN Err("ZeroDivisionError")
    ELSE Ok([answer_length |->
                [total |-> acc.total_length,
                 mean  |-> Round2(acc.total_length, n),
                 max   |-> acc.max_length,
                 min   |-> acc.min_length],
             answer_has_citation |->
                [total |-> acc.total_with_citation,
                 rate  |-> Round2(acc.total_with_citation, n)]])

-----------------------------------------------------------------------------
(* The inputs of send_question_to_target *)

MaxSnippets == 2

Questions == { Str(<<"Q">>), Str(<<"w","h","y">>) }

Snippets == { Str(<<"a">>), Str(<<"b">>) }

SnippetLists == UNION { [1..n -> Snippets] : n \in 0..MaxSnippets }

Answers == { Str(<<"h","e","l","l","o">>), Null }

\* a body of the expected shape
ExpectedBody(answer, texts) ==
    Obj(<< <<"choices", Arr(<<
        Obj(<< <<"message", Obj(<< <<"content", answer>> >>)>>,
               <<"context", Obj(<< <<"data_points",
                                     Obj(<< <<"text", texts>> >>)>> >>)>> >>)
    >>)>> >>)

GoodBodies ==
    { ExpectedBody(a, Arr(l)) : a \in Answers, l \in SnippetLists }

\* bodies that are JSON and not of the expected shape
BadBodies ==
    { Obj(<< <<"foo", Str(<<"b","a","r">>)>> >>),
      Obj(<< <<"error", Str(<<"o","o","p","s">>)>> >>),
      Obj(<< <<"choices", Arr(<<>>)>> >>),
      Obj(<< <<"choices", Null>> >>),
      Obj(<< <<"choices", Str(<<"x">>)>> >>),
      Obj(<< <<"choices", Arr(<< Obj(<< <<"message",
                Obj(<< <<"content", Str(<<"h","i">>)>> >>)>> >>) >>)>> >>),
      Obj(<< <<"choices", Arr(<< Obj(<< <<"context", Obj(<< <<"data_points",
                Obj(<< <<"text", Arr(<< Str(<<"a">>) >>)>> >>)>> >>)>> >>) >>)>> >>),
      ExpectedBody(Str(<<"h","i">>), Arr(<< Str(<<"a">>), Num(1) >>)),
      ExpectedBody(Str(<<"h","i">>), Null),
      Arr(<< Str(<<"a">>) >>),
      Null }

\* bodies that are not of the expected shape and that the subscripts and
\* the join accept all the same: a str is joined character by character, a
\* dict key by key
OddBodies ==
    { ExpectedBody(Str(<<"h","i">>), Str(<<"a","b">>)),
      ExpectedBody(Num(1), Obj(<< <<"k", Null>> >>)) }

NoConnection == [kind |-> "no_connection"]

JsonResponse(status, body) ==
    [kind |-> "response", status |-> status, json |-> TRUE, body |-> body]

\* a response whose body r.json() cannot decode
TextResponse(status) ==
    [kind |-> "response", status |-> status, json |-> FALSE,
     body |-> Str(<<"<","h","t","m","l",">">>)]

StatusCodes == { 200, 500 }

HttpOutcomes ==
    { NoConnection }
    \cup { TextResponse(s) : s \in StatusCodes }
    \cup { JsonResponse(s, b) : s \in StatusCodes,
                                 b \in GoodBodies \cup OddBodies \cup BadBodies }

-----------------------------------------------------------------------------
(* The inputs of process_config *)

MaxKeys == 2

KeyNames == <<"results_dir", "target_parameters", "testdata_path", "target_url">>

LeafSamples ==
    { Str(<<"x">>),
      Str(TIMESTAMP),
      Str(<<"r","/">> \o TIMESTAMP \o <<"/">> \o TIMESTAMP),
      Str(<<"<","R","E","A","D">> \o TIMESTAMP \o <<"F","I","L","E",">">>),
      Str(READFILE \o <<"f">>),
      Str(<<"f">> \o READFILE),
      Str(READFILE \o <<"g">>),
      Str(TIMESTAMP \o READFILE \o <<"f">>),
      Num(3),
      Arr(<< Str(TIMESTAMP) >>) }

NestedSamples ==
    { Obj(<< <<"prompt", l>> >>) : l \in LeafSamples }
    \cup { Obj(<< <<"overrides", Obj(<< <<"prompt", Str(TIMESTAMP)>> >>)>>,
                  <<"top", Str(READFILE \o <<"f">>)>> >>) }

ValueSamples == LeafSamples \cup NestedSamples

Configs ==
    UNION { { Obj([i \in 1..n |-> <<KeyNames[i], vals[i]>>]) :
                vals \in [1..n -> ValueSamples] } : n \in 0..MaxKeys }

FileContents ==
    { Str(<<"h","i">>), Str(<<"a","t"," ">> \o TIMESTAMP), Str(READFILE \o <<"f">>) }

FileSystems == [ {<<"f">>} -> FileContents \cup {Missing} ]

Clock == { 7, 1700000000 }

-----------------------------------------------------------------------------
(* The inputs of a run *)

MaxLines == 3

MaxRecords == 3

TestRecord(q) ==
    Obj(<< <<"question", Str(<<"q", q>>)>>, <<"truth", Str(<<"t", q>>)>> >>)

DatasetLines == { JsonLine(TestRecord("1")), JsonLine(TestRecord("2")),
                  JsonLine(TestRecord("3")), BadLine }

DatasetFiles ==
    { Missing }
    \cup { File(l) : l \in UNION { [1..n -> DatasetLines] : n \in 0..MaxLines } }

NumQuestions == { None } \cup { IntValue(n) : n \in -1..(MaxLines + 1) }

\* a string of n characters c
Rep(c, n) == [i \in 1..n |-> c]

Rated(answer, coherence, relevance, groundedness) ==
    [answer  |-> Str(answer),
     ratings |-> [m \in MetricNames |->
                    CASE m = "gpt_coherence" -> coherence
                      [] m = "gpt_relevance" -> relevance
                      [] OTHER               -> groundedness]]

SeeDoc     == <<"s","e","e"," ","[","d","o","c",".","p","d","f","]">>
NoCitation == <<"n","o"," ","c","i","t","a","t","i","o","n"," ","h","e","r","e">>
TwoMarkers == <<"[","a","]","[","b","]">>

RatedSamples ==
    { Rated(SeeDoc,       Rating(50), Rating(40), Rating(30)),
      Rated(NoCitation,   Rating(30), Rating(39), Rating(50)),
      Rated(TwoMarkers,   Rating(40), Rating(45), Rating(10)),
      Rated(<<"[","]">>,  Rating(20), NaN,        Rating(40)),
      Rated(Rep("x", 10), Rating(50), Rating(50), Rating(50)),
      Rated(Rep("y", 20), Rating(10), Rating(49), Rating(40)),
      Rated(<<"a","]","b","[","c">>, Rating(41), Rating(20), Rating(30)),
      Rated(<<"[","]">>,  Rating(40), Rating(30), Rating(50)) }

RatedSeqs == UNION { [1..n -> RatedSamples] : n \in 0..MaxRecords }

Means == [m \in MetricNames |-> 4333]

\* what evaluate() can do: raise, or return results whose first artifact is a
\* file of rated records
EvalRaises == [raised |-> TRUE, artifacts |-> <<>>, has_means |-> FALSE, lines |-> <<>>]

EvalReturns(artifacts, has_means, lines) ==
    [raised |-> FALSE, artifacts |-> artifacts, has_means |-> has_means, lines |-> lines]

FirstRated  == Rated(SeeDoc, Rating(50), Rating(40), Rating(30))
SecondRated == Rated(TwoMarkers, Rating(40), Rating(45), Rating(10))
NaNRated    == Rated(<<"[","]">>, Rating(20), NaN, Rating(40))

EvalResults ==
    { EvalRaises,
      EvalReturns(<<>>, TRUE, <<>>),
      EvalReturns(<<"eval_results.jsonl">>, FALSE, << JsonLine(FirstRated) >>),
      EvalReturns(<<"eval_results.jsonl">>, TRUE, << BadLine >>),
      EvalReturns(<<"eval_results.jsonl">>, TRUE, <<>>),
      EvalReturns(<<"eval_results.jsonl">>, TRUE, << JsonLine(FirstRated) >>),
      EvalReturns(<<"eval_results.jsonl">>, TRUE, << JsonLine(NaNRated) >>),
      EvalReturns(<<"eval_results.jsonl">>, TRUE,
                  << JsonLine(FirstRated), JsonLine(SecondRated) >>) }

\* what the target can do with the probe
ProbeOutcomes ==
    { NoConnection,
      TextResponse(500),
      JsonResponse(200, Obj(<< <<"foo", Str(<<"b","a","r">>)>> >>)),
      JsonResponse(500, Obj(<< <<"error", Str(<<"o","o","p","s">>)>> >>)),
      JsonResponse(200, ExpectedBody(Null, Arr(<< Str(<<"a">>) >>))),
      JsonResponse(200, ExpectedBody(Str(<<"h","e","l","l","o">>),
                                     Arr(<< Str(<<"a">>), Str(<<"b">>) >>))) }

GoodConfig ==
    Obj(<< <<"results_dir", Str(<<"r","/">> \o TIMESTAMP)>>,
           <<"testdata_path", Str(<<"q",".","j">>)>>,
           <<"target_url", Str(<<"u">>)>>,
           <<"target_parameters", Obj(<< <<"prompt", Str(READFILE \o <<"f">>)>> >>)>> >>)

RunConfigs ==
    { GoodConfig,
      Obj(<< <<"results_dir", Str(<<"r">>)>>,
             <<"testdata_path", Str(<<"q",".","j">>)>>,
             <<"target_url", Str(READFILE \o <<"g">>)>> >>),
      Obj(<< <<"results_dir", Str(<<"r">>)>>,
             <<"target_url", Str(<<"u">>)>> >>) }

RunFileSystem == [p \in {<<"f">>} |-> Str(<<"h","i">>)]

RunClocks == { 1700000000 }

OutputFiles == { "summary.json", "evaluate_parameters.json", "config.json" }

-----------------------------------------------------------------------------
(* The three programs are checked apart: the variables of the other two rest *)

sq_idle ==
    /\ sq_question = Str(<<>>)
    /\ sq_http = NoConnection
    /\ sq_raise_error = FALSE
    /\ sq_out = NoOutcome

cfg_idle ==
    /\ cfg_in = Obj(<<>>)
    /\ cfg_fs = RunFileSystem
    /\ cfg_now = 0
    /\ cfg_out = NoOutcome

NotCalled == [called |-> FALSE, data |-> <<>>]

NoResults == [raised |-> FALSE, artifacts |-> <<>>, has_means |-> FALSE, lines |-> <<>>]

NoFiles == [f \in OutputFiles |-> "absent"]

NoSummary == [ok |-> FALSE, exc |-> "none"]

agg_idle ==
    /\ questions_with_ratings = <<>>
    /\ ind = 0
    /\ metrics = InitialMetrics([m \in MetricNames |-> 0])
    /\ total_length = 0
    /\ max_length = 0
    /\ min_length = InitialMinLength
    /\ total_with_citation = 0
    /\ summary = NoSummary

run_idle ==
    /\ pc = "idle"
    /\ dataset_file = Missing
    /\ num_questions = None
    /\ testdata = <<>>
    /\ target_data = NoOutcome
    /\ eval_data = NotCalled
    /\ results = NoResults
    /\ files = NoFiles
    /\ ret = "none"
    /\ exc = "none"
    /\ events = <<>>
    /\ agg_idle

-----------------------------------------------------------------------------
(* send_question_to_target called once, with any arguments *)

InitSend ==
    /\ sq_question \in Questions
    /\ sq_http \in HttpOutcomes
    /\ sq_raise_error \in BOOLEAN
    /\ sq_out = NoOutcome
    /\ cfg_idle
    /\ run_idle

SendQuestion ==
    /\ sq_out = NoOutcome
    /\ sq_out' = send_question_to_target(sq_question, sq_http, sq_raise_error)
    /\ UNCHANGED <<sq_question, sq_http, sq_raise_error, cfg_vars, agg_vars, run_vars>>

NextSend == SendQuestion

SpecSend == InitSend /\ [][NextSend]_vars

\* the request or the parsing of the response fails
SendFails ==
    \/ sq_http.kind = "no_connection"
    \/ ~sq_http.json
    \/ sq_http.body \in BadBodies

\* the string form of the error each failure produces
ErrorString ==
    IF sq_http.kind = "no_connection" THEN Str(<<"Connection refused">>)
    ELSE IF ~sq_http.json THEN Str(<<"Expecting value: line 1 column 1 (char 0)">>)
    ELSE [t |-> "str", v |-> <<SchemaMessage>>, repr_of |-> sq_http.body]

\* C3: with raise_error=False the call never raises; on every failure of the
\* request or of the parsing it returns the input question with answer and
\* context both equal to the string form of the error.
C3_NeverRaises ==
    (sq_out /= NoOutcome /\ ~sq_raise_error) =>
        /\ sq_out.kind = "return"
        /\ SendFails =>
            /\ sq_out.value.question = sq_question
            /\ sq_out.value.answer = ErrorString
            /\ sq_out.value.context = ErrorString

C3_Witness ==
    /\ sq_out /= NoOutcome
    /\ ~sq_raise_error
    /\ sq_http.kind = "response"
    /\ sq_http.json
    /\ sq_http.body = Obj(<< <<"foo", Str(<<"b","a","r">>)>> >>)
    /\ sq_out.kind = "return"
    /\ sq_out.value.answer = sq_out.value.context

\* the response was received and could not be parsed into answer and context
ParsingFails ==
    /\ sq_http.kind = "response"
    /\ (~sq_http.json \/ sq_http.body \in BadBodies)

IsSchemaError(out, response) ==
    /\ out.kind = "raise"
    /\ out.exc.type = "ValueError"
    /\ out.exc.msg = [t |-> "str", v |-> <<SchemaMessage>>, repr_of |-> response]

-----------------------------------------------------------------------------
(* process_config called once, on any mapping *)

InitConfig ==
    /\ cfg_in \in Configs
    /\ cfg_fs \in FileSystems
    /\ cfg_now \in Clock
    /\ cfg_out = NoOutcome
    /\ sq_idle
    /\ run_idle

ProcessConfig ==
    /\ cfg_out = NoOutcome
    /\ cfg_out' = process_config(cfg_in, cfg_fs, cfg_now)
    /\ UNCHANGED <<cfg_in, cfg_fs, cfg_now, sq_vars, agg_vars, run_vars>>

NextConfig == ProcessConfig

SpecConfig == InitConfig /\ [][NextConfig]_vars

HasMarker(s) == Contains(s, TIMESTAMP) \/ Contains(s, READFILE)

RECURSIVE AllStrings(_)
\* every string value of a configuration, at any depth, in dicts and lists
AllStrings(val) ==
    CASE val.t = "str" -> { val.v }
      [] val.t = "obj" -> UNION { AllStrings(val.v[i][2]) : i \in 1..Len(val.v) }
      [] val.t = "arr" -> UNION { AllStrings(val.v[i]) : i \in 1..Len(val.v) }
      [] OTHER         -> {}

NoValueHasBothMarkers(cfg) ==
    \A s \in AllStrings(cfg) : ~(Contains(s, TIMESTAMP) /\ Contains(s, READFILE))

\* C7 as stated: when no value holds both markers, after a normal return no
\* string value at any depth, values produced by the substitution included,
\* contains <TIMESTAMP> or <READFILE>.
C7_AsStated ==
    (cfg_out.kind = "return" /\ NoValueHasBothMarkers(cfg_in)) =>
        \A s \in AllStrings(cfg_out.cfg) : ~HasMarker(s)

RECURSIVE Materialized(_, _, _)
\* before and after agree in shape; a string value reached through dicts
\* holds a marker afterwards only if it is the contents of the file its
\* <READFILE> value named; anything inside a list is as it was
Materialized(before, after, fs) ==
    CASE before.t = "obj" ->
            /\ after.t = "obj"
            /\ Len(after.v) = Len(before.v)
            /\ \A i \in 1..Len(before.v) :
                /\ after.v[i][1] = before.v[i][1]
                /\ Materialized(before.v[i][2], after.v[i][2], fs)
      [] before.t = "str" ->
            /\ after.t = "str"
            /\ HasMarker(after.v) =>
                /\ Contains(before.v, READFILE)
                /\ ~Contains(before.v, TIMESTAMP)
                /\ after = fs[Replace(before.v, READFILE, <<>>)]
      [] OTHER -> after = before

\* C7 amended: when no value holds both markers, after a normal return no
\* string value that is the value of a key of the mapping, or of a mapping
\* nested in it at any depth, contains <TIMESTAMP> or <READFILE>, except a
\* value that is the contents of the file read for a <READFILE> value, which
\* is stored as read; strings inside lists are not visited and are unchanged.
C7_MarkersResolved ==
    (cfg_out.kind = "return" /\ NoValueHasBothMarkers(cfg_in)) =>
        Materialized(cfg_in, cfg_out.cfg, cfg_fs)

C7_Witness ==
    /\ cfg_out.kind = "return"
    /\ NoValueHasBothMarkers(cfg_in)
    /\ Len(cfg_in.v) = 2
    /\ cfg_in.v[1][2] = Str(<<"r","/">> \o TIMESTAMP \o <<"/">> \o TIMESTAMP)
    /\ cfg_in.v[2][2] = Obj(<< <<"prompt", Str(READFILE \o <<"f">>)>> >>)
    /\ \A s \in AllStrings(cfg_out.cfg) : ~HasMarker(s)

-----------------------------------------------------------------------------
(* run_evaluate_from_config: one run, from the reading of the configuration *)

Init ==
    /\ pc = "read_config"
    /\ cfg_in \in RunConfigs
    /\ cfg_fs = RunFileSystem
    /\ cfg_now \in RunClocks
    /\ cfg_out = NoOutcome
    /\ dataset_file \in DatasetFiles
    /\ num_questions \in NumQuestions
    /\ testdata = <<>>
    /\ target_data = NoOutcome
    /\ eval_data = NotCalled
    /\ results = NoResults
    /\ files = NoFiles
    /\ ret = "none"
    /\ exc = "none"
    /\ events = <<>>
    /\ agg_idle
    /\ sq_idle

\* an exception leaves run_evaluation and run_evaluate_from_config
Fails(type) ==
    /\ pc' = "raised"
    /\ exc' = type

Step(name) == events' = Append(events, name)

RequiredKeys == <<"results_dir", "testdata_path", "target_url">>

\* json.load and process_config, then the subscripts of config
ReadConfig ==
    /\ pc = "read_config"
    /\ Step("read_config")
    /\ cfg_out' = process_config(cfg_in, cfg_fs, cfg_now)
    /\ IF cfg_out'.kind = "raise" THEN Fails("FileNotFoundError")
       ELSE IF \E k \in 1..Len(RequiredKeys) : ~GetKey(cfg_out'.cfg, RequiredKeys[k]).ok
       THEN Fails("KeyError")
       ELSE pc' = PcAfterConfig /\ UNCHANGED exc
    /\ UNCHANGED <<cfg_in, cfg_fs, cfg_now, sq_vars, agg_vars, dataset_file,
                   num_questions, testdata, target_data, eval_data, results,
                   files, ret>>

\* load_jsonl and the cap of num_questions
LoadDataset ==
    /\ pc = "load_dataset"
    /\ Step("load_dataset")
    /\ LET loaded == load_jsonl(dataset_file)
       IN  IF loaded.ok
           THEN /\ testdata' = Truncate(loaded.val, num_questions)
                /\ pc' = PcAfterLoad
                /\ UNCHANGED exc
           ELSE /\ Fails(loaded.exc)
                /\ UNCHANGED testdata
    /\ UNCHANGED <<cfg_vars, sq_vars, agg_vars, dataset_file, num_questions,
                   target_data, eval_data, results, files, ret>>

\* the probe and the logging of its answer, in their try block
HealthCheck ==
    /\ pc = "probe"
    /\ Step("probe")
    /\ \E http \in ProbeOutcomes :
        /\ target_data' = send_question_to_target(ProbeQuestion, http, TRUE)
        /\ pc' = AfterHealthCheck(target_data').pc
        /\ ret' = AfterHealthCheck(target_data').ret
    /\ UNCHANGED <<cfg_vars, sq_vars, agg_vars, dataset_file, num_questions,
                   testdata, eval_data, results, files, exc>>

\* the call of evaluate()
Evaluate ==
    /\ pc = "evaluate"
    /\ Step("evaluate")
    /\ eval_data' = [called |-> TRUE, data |-> testdata]
    /\ \E r \in EvalResults :
        /\ results' = r
        /\ IF r.raised THEN Fails("EvaluateError")
           ELSE pc' = "read_results" /\ UNCHANGED exc
    /\ UNCHANGED <<cfg_vars, sq_vars, agg_vars, dataset_file, num_questions,
                   testdata, target_data, files, ret>>

\* the reading of the first artifact and the metrics dict before the loop
ReadResults ==
    /\ pc = "read_results"
    /\ Step("read_results")
    /\ LET parsed == ParseLines(results.lines)
       IN  IF results.artifacts = <<>>
           THEN Fails("IndexError") /\ UNCHANGED agg_vars
           ELSE IF ~parsed.ok
           THEN Fails(parsed.exc) /\ UNCHANGED agg_vars
           ELSE IF ~results.has_means
           THEN /\ Fails("KeyError")
                /\ questions_with_ratings' = parsed.val
                /\ UNCHANGED <<ind, metrics, total_length, max_length, min_length,
                               total_with_citation, summary>>
           ELSE /\ questions_with_ratings' = parsed.val
                /\ metrics' = InitialMetrics(Means)
                /\ total_length' = 0
                /\ max_length' = 0
                /\ min_length' = InitialMinLength
                /\ total_with_citation' = 0
                /\ pc' = "aggregate"
                /\ UNCHANGED <<ind, summary, exc>>
    /\ UNCHANGED <<cfg_vars, sq_vars, dataset_file, num_questions, testdata,
                   target_data, eval_data, results, files, ret>>

Accumulators ==
    [metrics             |-> metrics,
     total_length        |-> total_length,
     max_length          |-> max_length,
     min_length          |-> min_length,
     total_with_citation |-> total_with_citation]

\* one iteration of the loop over questions_with_ratings
AggregateStep ==
    /\ pc = "aggregate"
    /\ ind < Len(questions_with_ratings)
    /\ Step("aggregate")
    /\ LET r == AggregateRecord(Accumulators, questions_with_ratings[ind + 1], ind + 1)
       IN  /\ metrics' = r.v.metrics
           /\ total_length' = r.v.total_length
           /\ max_length' = r.v.max_length
           /\ min_length' = r.v.min_length
           /\ total_with_citation' = r.v.total_with_citation
           /\ IF r.ok
              THEN ind' = ind + 1 /\ UNCHANGED <<pc, exc>>
              ELSE Fails(r.exc) /\ UNCHANGED ind
    /\ UNCHANGED <<cfg_vars, sq_vars, questions_with_ratings, summary,
                   dataset_file, num_questions, testdata, target_data,
                   eval_data, results, files, ret>>

\* the answer_length and answer_has_citation entries, after the loop
FinishMetrics ==
    /\ pc = "aggregate"
    /\ ind = Len(questions_with_ratings)
    /\ Step("finish_metrics")
    /\ summary' = FinalEntries(Accumulators, Len(questions_with_ratings))
    /\ IF summary'.ok
       THEN pc' = "write_summary" /\ UNCHANGED exc
       ELSE Fails(summary'.exc)
    /\ UNCHANGED <<cfg_vars, sq_vars, questions_with_ratings, ind, metrics,
                   total_length, max_length, min_length, total_with_citation,
                   dataset_file, num_questions, testdata, target_data,
                   eval_data, results, files, ret>>

\* open(name, "w") and write(): the file system lets both pass, or fails one
WriteFile(name, io) ==
    CASE io = "open_fails"  -> files
      [] io = "write_fails" -> [files EXCEPT ![name] = "empty"]
      [] OTHER              -> [files EXCEPT ![name] = "written"]

WriteSummary ==
    /\ pc = "write_summary"
    /\ Step("write_summary")
    /\ \E io \in {"ok", "open_fails", "write_fails"} :
        /\ files' = WriteFile("summary.json", io)
        /\ IF io = "ok" THEN pc' = "write_parameters" /\ UNCHANGED exc
           ELSE Fails("OSError")
    /\ UNCHANGED <<cfg_vars, sq_vars, agg_vars, dataset_file, num_questions,
                   testdata, target_data, eval_data, results, ret>>

\* evaluate_parameters.json is opened before openai_config["model"] is read
WriteParameters ==
    /\ pc = "write_parameters"
    /\ Step("write_parameters")
    /\ \E io \in {"ok", "open_fails", "no_model", "write_fails"} :
        /\ files' = WriteFile("evaluate_parameters.json",
                              IF io = "no_model" THEN "write_fails" ELSE io)
        /\ IF io = "ok"
           THEN pc' = "returned" /\ ret' = "True" /\ UNCHANGED exc
           ELSE Fails(IF io = "no_model" THEN "KeyError" ELSE "OSError")
                /\ UNCHANGED ret
    /\ UNCHANGED <<cfg_vars, sq_vars, agg_vars, dataset_file, num_questions,
                   testdata, target_data, eval_data, results>>

\* run_evaluate_from_config after run_evaluation returned True
SaveConfig ==
    /\ pc = "returned"
    /\ ShouldSaveConfig(ret)
    /\ Step("save_config")
    /\ \E io \in {"ok", "open_fails", "write_fails"} :
        /\ files' = WriteFile("config.json", io)
        /\ IF io = "ok" THEN pc' = "done" /\ UNCHANGED exc
           ELSE Fails("OSError")
    /\ UNCHANGED <<cfg_vars, sq_vars, agg_vars, dataset_file, num_questions,
                   testdata, target_data, eval_data, results, ret>>

\* run_evaluate_from_config after run_evaluation returned False
LogTerminated ==
    /\ pc = "returned"
    /\ ~ShouldSaveConfig(ret)
    /\ Step("log_terminated")
    /\ pc' = "done"
    /\ UNCHANGED <<cfg_vars, sq_vars, agg_vars, dataset_file, num_questions,
                   testdata, target_data, eval_data, results, files, ret, exc>>

Next ==
    \/ ReadConfig
    \/ LoadDataset
    \/ HealthCheck
    \/ Evaluate
    \/ ReadResults
    \/ AggregateStep
    \/ FinishMetrics
    \/ WriteSummary
    \/ WriteParameters
    \/ SaveConfig
    \/ LogTerminated

Spec == Init /\ [][Next]_vars

-----------------------------------------------------------------------------
(* Claims about a run *)

Happened(step) == \E i \in 1..Len(events) : events[i] = step

\* step a happened, and step b happened before it
Before(b, a) ==
    \E i \in 1..Len(events) : events[i] = a /\ \E j \in 1..(i - 1) : events[j] = b

NoOutputFile == \A f \in OutputFiles : files[f] = "absent"

\* C1: when the probe raises, run_evaluation returns False and nothing
\* later runs: evaluate() is never called and none of summary.json,
\* evaluate_parameters.json and config.json is written.
C1_ProbeFailureEndsRun ==
    target_data.kind = "raise" =>
        /\ ret = "False"
        /\ pc \in {"returned", "done"}
        /\ exc = "none"
        /\ ~eval_data.called
        /\ ~Happened("evaluate")
        /\ NoOutputFile

C1_Witness ==
    /\ target_data.kind = "raise"
    /\ target_data.exc.type = "ConnectionError"
    /\ pc = "done"
    /\ ret = "False"

\* C2 as stated: the dataset is loaded only after the probe has succeeded.
C2_AsStated ==
    Happened("load_dataset") =>
        /\ Before("probe", "load_dataset")
        /\ ~HealthCheckFails(target_data)

\* C2 amended: in every run the dataset file is loaded, and capped, before
\* the health-check probe is sent: the probe is sent only after the dataset
\* has loaded without error, so a dataset error ends the run with no probe
\* sent, and a run whose probe fails has already read the dataset; the
\* grading call is made only after the probe has succeeded.
C2_LoadThenProbeThenEvaluate ==
    /\ Happened("probe") =>
        /\ Before("load_dataset", "probe")
        /\ load_jsonl(dataset_file).ok
    /\ (Happened("load_dataset") /\ ~load_jsonl(dataset_file).ok) =>
        /\ pc = "raised"
        /\ target_data = NoOutcome
    /\ Happened("evaluate") =>
        /\ Before("probe", "evaluate")
        /\ target_data.kind = "return"

C2_Witness ==
    /\ Before("load_dataset", "probe")
    /\ target_data.kind = "raise"
    /\ ret = "False"
    /\ Len(testdata) = 2

\* the first record of questions_with_ratings the loop cannot rate
FirstNaN ==
    { i \in 1..Len(questions_with_ratings) :
        /\ \E m \in MetricNames : questions_with_ratings[i].ratings[m].nan
        /\ \A j \in 1..(i - 1) : \A m \in MetricNames :
                ~questions_with_ratings[j].ratings[m].nan }

AggregateSteps == Cardinality({ i \in 1..Len(events) : events[i] = "aggregate" })

\* a step after the health check has failed
LaterStepFailed ==
    \/ results.raised
    \/ /\ Happened("read_results")
       /\ \/ results.artifacts = <<>>
          \/ ~ParseLines(results.lines).ok
          \/ ~results.has_means
    \/ \E i \in FirstNaN : AggregateSteps >= i
    \/ Happened("finish_metrics") /\ questions_with_ratings = <<>>
    \/ Happened("write_summary") /\ files["summary.json"] /= "written"
    \/ Happened("write_parameters") /\ files["evaluate_parameters.json"] /= "written"

\* C5: run_evaluation returns False only when the health check fails; a
\* failure of a later step is an exception that leaves run_evaluation and
\* run_evaluate_from_config, never a False.
C5_FalseOnlyFromHealthCheck ==
    /\ ret = "False" =>
        /\ target_data /= NoOutcome
        /\ HealthCheckFails(target_data)
        /\ ~Happened("evaluate")
    /\ LaterStepFailed =>
        /\ pc = "raised"
        /\ exc /= "none"
        /\ ret = "none"
        /\ ~Happened("log_terminated")

C5_Witness ==
    /\ results.raised
    /\ pc = "raised"
    /\ exc = "EvaluateError"
    /\ ret = "none"

\* C6: config.json is written only on success: only if run_evaluation
\* returned True, after the health check passed and summary.json and
\* evaluate_parameters.json were written.
C6_ConfigOnlyOnSuccess ==
    (Happened("save_config") \/ files["config.json"] /= "absent") =>
        /\ ret = "True"
        /\ target_data.kind = "return"
        /\ ~HealthCheckFails(target_data)
        /\ files["summary.json"] = "written"
        /\ files["evaluate_parameters.json"] = "written"
        /\ Before("write_parameters", "save_config")

C6_Witness ==
    /\ files["config.json"] = "written"
    /\ pc = "done"
    /\ ret = "True"

\* the artifact was read and held no rated record
EmptyRatedRead ==
    /\ Happened("read_results")
    /\ results.artifacts /= <<>>
    /\ results.has_means
    /\ results.lines = <<>>

\* C9: when the rated records read from the artifact are empty, the
\* aggregation fails with ZeroDivisionError before any output file is
\* written: no summary.json, evaluate_parameters.json or config.json.
C9_EmptyRatedFails ==
    EmptyRatedRead =>
        /\ questions_with_ratings = <<>>
        /\ NoOutputFile
        /\ ret = "none"
        /\ \/ pc = "aggregate" /\ ~Happened("finish_metrics")
           \/ pc = "raised" /\ exc = "ZeroDivisionError"

C9_Witness ==
    /\ EmptyRatedRead
    /\ Happened("finish_metrics")
    /\ pc = "raised"
    /\ exc = "ZeroDivisionError"

\* the records of the dataset file, in line order
FileRecords == [i \in 1..Len(dataset_file.lines) |-> dataset_file.lines[i].val]

\* C10 as stated: evaluate() gets the records in line order, the first
\* min(N, lines) of them under a cap N >= 0, all of them without a cap.
C10_AsStated ==
    eval_data.called =>
        IF num_questions.none THEN eval_data.data = FileRecords
        ELSE num_questions.n >= 0 =>
                eval_data.data =
                    SubSeq(FileRecords, 1, Min(num_questions.n, Len(FileRecords)))

\* C10 amended: evaluate() gets the records in line order, the first
\* min(N, lines) of them under a cap N >= 1, and all of them without a cap
\* or with a cap of 0.
C10_DatasetInFileOrder ==
    eval_data.called =>
        IF num_questions.none \/ num_questions.n = 0
        THEN eval_data.data = FileRecords
        ELSE num_questions.n >= 1 =>
                eval_data.data =
                    SubSeq(FileRecords, 1, Min(num_questions.n, Len(FileRecords)))

C10_Witness ==
    /\ eval_data.called
    /\ num_questions = IntValue(2)
    /\ dataset_file = File(<< JsonLine(TestRecord("3")), JsonLine(TestRecord("1")),
                              JsonLine(TestRecord("2")) >>)
    /\ eval_data.data = << TestRecord("3"), TestRecord("1") >>

-----------------------------------------------------------------------------
(* The aggregation loop on any rated records: a run that has read them *)

GoodProbe ==
    JsonResponse(200, ExpectedBody(Str(<<"h","e","l","l","o">>),
                                   Arr(<< Str(<<"a">>), Str(<<"b">>) >>)))

InitAggregate ==
    /\ pc = "aggregate"
    /\ cfg_in = GoodConfig
    /\ cfg_fs = RunFileSystem
    /\ cfg_now \in RunClocks
    /\ cfg_out = process_config(GoodConfig, RunFileSystem, cfg_now)
    /\ dataset_file = File(<< JsonLine(TestRecord("1")) >>)
    /\ num_questions = None
    /\ testdata = << TestRecord("1") >>
    /\ target_data = send_question_to_target(ProbeQuestion, GoodProbe, TRUE)
    /\ eval_data = [called |-> TRUE, data |-> << TestRecord("1") >>]
    /\ questions_with_ratings \in RatedSeqs
    /\ results = EvalReturns(<<"eval_results.jsonl">>, TRUE,
                    [i \in 1..Len(questions_with_ratings) |->
                        JsonLine(questions_with_ratings[i])])
    /\ ind = 0
    /\ metrics = InitialMetrics(Means)
    /\ total_length = 0
    /\ max_length = 0
    /\ min_length = InitialMinLength
    /\ total_with_citation = 0
    /\ summary = NoSummary
    /\ files = NoFiles
    /\ ret = "none"
    /\ exc = "none"
    /\ events = <<"read_config", "load_dataset", "probe", "evaluate", "read_results">>
    /\ sq_idle

NextAggregate ==
    \/ AggregateStep
    \/ FinishMetrics

SpecAggregate == InitAggregate /\ [][NextAggregate]_vars

\* the records among the first k whose rating for metric m is 4 or more
Passing(m, k) ==
    { i \in 1..k : questions_with_ratings[i].ratings[m].tenths >= 40 }

\* h hundredths is p / n to the nearest hundredth
NearestHundredth(h, p, n) ==
    /\ 2 * (100 * p - h * n) <= n
    /\ 2 * (h * n - 100 * p) <= n

\* C8: for every metric, pass_count is the number of records processed so
\* far whose rating truncated to an integer is at least 4, it never exceeds
\* the number of records processed, and pass_rate is pass_count over that
\* number rounded to 2 decimals (in hundredths: 67 is 0.67); after the last
\* record these are the final pass_count and pass_rate.
C8_PassCountAndRate ==
    pc \in {"aggregate", "write_summary"} =>
        \A m \in MetricNames :
            /\ metrics[m].pass_count = Cardinality(Passing(m, ind))
            /\ metrics[m].pass_count <= ind
            /\ ind >= 1 =>
                NearestHundredth(metrics[m].pass_rate, Cardinality(Passing(m, ind)), ind)

C8_Witness ==
    /\ pc = "write_summary"
    /\ ind = 3
    /\ [i \in 1..3 |-> questions_with_ratings[i].ratings["gpt_coherence"]]
            = << Rating(50), Rating(30), Rating(40) >>
    /\ metrics["gpt_coherence"].pass_count = 2
    /\ metrics["gpt_coherence"].pass_rate = 67

-----------------------------------------------------------------------------
(* Claims about a response of the expected shape *)

\* the snippets with a blank line between each two: the snippets and the
\* two newlines in turn, concatenated
BlankLineJoined(snippets) ==
    IF snippets = <<>> THEN <<>>
    ELSE Concat([i \in 1..(2 * Len(snippets) - 1) |->
                    IF i % 2 = 1 THEN snippets[(i + 1) \div 2].v
                    ELSE <<"\n", "\n">>])

\* C11: for a response of the expected shape, in both raise_error modes, the
\* call returns the input question, answer = choices[0].message.content and
\* context = the snippets of choices[0].context.data_points.text joined in
\* order with "\n\n" between them.
C11_ExpectedShapeRecord ==
    (sq_out /= NoOutcome /\ sq_http.kind = "response" /\ sq_http.json) =>
        \A a \in Answers, l \in SnippetLists :
            sq_http.body = ExpectedBody(a, Arr(l)) =>
                /\ sq_out.kind = "return"
                /\ sq_out.value.question = sq_question
                /\ sq_out.value.answer = a
                /\ sq_out.value.context = Str(BlankLineJoined(l))

C11_Witness ==
    /\ sq_out /= NoOutcome
    /\ sq_raise_error
    /\ sq_http.kind = "response"
    /\ sq_http.json
    /\ sq_http.body = ExpectedBody(Str(<<"h","e","l","l","o">>),
                                   Arr(<< Str(<<"a">>), Str(<<"b">>) >>))
    /\ sq_out.kind = "return"
    /\ sq_out.value.answer = Str(<<"h","e","l","l","o">>)
    /\ sq_out.value.context = Str(<<"a", "\n", "\n", "b">>)

-----------------------------------------------------------------------------
(* Claims about answer_length and answer_has_citation *)

\* the character length of each answer, in order
AnswerLengths ==
    [i \in 1..Len(questions_with_ratings) |-> Len(questions_with_ratings[i].answer.v)]

RECURSIVE SumOf(_)
SumOf(ns) == IF ns = <<>> THEN 0 ELSE Head(ns) + SumOf(Tail(ns))

\* C12: for a non-empty sequence of rated records, answer_length.total is
\* the sum of the character lengths of the answers, max the largest and min
\* the smallest of them, and mean is total over the number of records
\* rounded to 2 decimals (in hundredths: 1167 is 11.67).
C12_AnswerLength ==
    pc = "write_summary" =>
        LET lengths == AnswerLengths
            n       == Len(lengths)
            entry   == summary.val.answer_length
        IN  /\ n >= 1
            /\ entry.total = SumOf(lengths)
            /\ \E i \in 1..n : lengths[i] = entry.max
            /\ \A i \in 1..n : lengths[i] <= entry.max
            /\ entry.min.hi = 0
            /\ \E i \in 1..n : lengths[i] = entry.min.lo
            /\ \A i \in 1..n : lengths[i] >= entry.min.lo
            /\ NearestHundredth(entry.mean, SumOf(lengths), n)

C12_Witness ==
    /\ pc = "write_summary"
    /\ AnswerLengths = << 10, 20, 5 >>
    /\ summary.val.answer_length.total = 35
    /\ summary.val.answer_length.mean = 1167
    /\ summary.val.answer_length.max = 20
    /\ summary.val.answer_length.min = [hi |-> 0, lo |-> 5]

\* s holds "[", then one or more characters other than "]", then "]"
Cited(s) ==
    \E i \in 1..Len(s) : \E j \in (i + 2)..Len(s) :
        /\ s[i] = "["
        /\ s[j] = "]"
        /\ \A k \in (i + 1)..(j - 1) : s[k] /= "]"

\* the records among the first k whose answer holds a citation marker
CitedAnswers(k) ==
    { i \in 1..k : Cited(questions_with_ratings[i].answer.v) }

\* C13: answer_has_citation.total is the number of answers, each counted
\* once, whose text holds "[", one or more characters other than "]", and
\* "]"; an answer with no brackets or with the empty pair "[]" alone is not
\* counted.
C13_CitationCount ==
    /\ pc \in {"aggregate", "write_summary"} =>
            total_with_citation = Cardinality(CitedAnswers(ind))
    /\ pc = "write_summary" =>
            summary.val.answer_has_citation.total =
                Cardinality(CitedAnswers(Len(questions_with_ratings)))

C13_Witness ==
    /\ pc = "write_summary"
    /\ [i \in 1..Len(questions_with_ratings) |-> questions_with_ratings[i].answer.v]
            = << SeeDoc, NoCitation, TwoMarkers >>
    /\ summary.val.answer_has_citation.total = 2

\* an answer that is the empty pair alone was aggregated and not counted
C13_EmptyPairNotCounted ==
    /\ pc = "write_summary"
    /\ Len(questions_with_ratings) = 1
    /\ questions_with_ratings[1].answer.v = <<"[", "]">>
    /\ summary.val.answer_has_citation.total = 0

=============================================================================
